---- MODULE Spec2Model ----
(***************************************************************************)
(* A model of invest.py, the Streamlit investment-return calculator.       *)
(*                                                                         *)
(* Numbers.  The script computes with Python floats.  The model computes   *)
(* with exact rationals (a sign, a numerator and a denominator, the two    *)
(* last as arbitrary-precision naturals, because a tier valuation such as  *)
(* 150,000,000,000 and a power such as 1.08^7 do not fit a 32-bit          *)
(* integer).  The rounding of IEEE doubles is not modelled.                *)
(*                                                                         *)
(* Texts.  A text is a sequence of one-character strings.  The characters  *)
(* of the model are "$", ",", " ", "+", "-", ".", the ten digits and the   *)
(* letters B, M, b, m, x; float() is modelled on those characters.         *)
(***************************************************************************)
EXTENDS Integers, Sequences, FiniteSets, TLC

(***************************************************************************)
(* Arbitrary-precision naturals: little-endian sequences of limbs in       *)
(* 0..Base-1 with no high zero limb; zero is the empty sequence.           *)
(***************************************************************************)
Base == 100 * 100

RECURSIVE MFromNat(_)
MFromNat(k) == IF k = 0 THEN <<>> ELSE <<k % Base>> \o MFromNat(k \div Base)

RECURSIVE MTrim(_)
MTrim(a) ==
    IF a = <<>> THEN a
    ELSE IF a[Len(a)] = 0 THEN MTrim(SubSeq(a, 1, Len(a) - 1)) ELSE a

RECURSIVE MAddC(_, _, _, _)
MAddC(a, b, i, c) ==
    IF i > Len(a) /\ i > Len(b) THEN (IF c = 0 THEN <<>> ELSE <<c>>)
    ELSE LET x == (IF i <= Len(a) THEN a[i] ELSE 0)
                  + (IF i <= Len(b) THEN b[i] ELSE 0) + c
         IN  <<x % Base>> \o MAddC(a, b, i + 1, x \div Base)

MAdd(a, b) == MAddC(a, b, 1, 0)

RECURSIVE MSubB(_, _, _, _)
MSubB(a, b, i, br) ==
    IF i > Len(a) THEN <<>>
    ELSE LET x == a[i] - (IF i <= Len(b) THEN b[i] ELSE 0) - br
         IN  IF x < 0 THEN <<x + Base>> \o MSubB(a, b, i + 1, 1)
                      ELSE <<x>> \o MSubB(a, b, i + 1, 0)

\* a - b for a >= b
MSub(a, b) == MTrim(MSubB(a, b, 1, 0))

RECURSIVE MCmpAt(_, _, _)
MCmpAt(a, b, i) ==
    IF i = 0 THEN 0
    ELSE IF a[i] > b[i] THEN 1
    ELSE IF a[i] < b[i] THEN -1
    ELSE MCmpAt(a, b, i - 1)

\* -1, 0 or 1 as a < b, a = b or a > b
MCmp(a, b) ==
    IF Len(a) > Len(b) THEN 1
    ELSE IF Len(a) < Len(b) THEN -1
    ELSE MCmpAt(a, b, Len(a))

RECURSIVE MMulSmallC(_, _, _, _)
MMulSmallC(a, k, i, c) ==
    IF i > Len(a) THEN (IF c = 0 THEN <<>> ELSE <<c>>)
    ELSE LET x == a[i] * k + c
         IN  <<x % Base>> \o MMulSmallC(a, k, i + 1, x \div Base)

\* a * k for a limb k
MMulSmall(a, k) == IF k = 0 \/ a = <<>> THEN <<>> ELSE MMulSmallC(a, k, 1, 0)

RECURSIVE MMulAt(_, _, _)
MMulAt(a, b, j) ==
    IF j > Len(b) THEN <<>>
    ELSE LET r == MMulAt(a, b, j + 1)
         IN  MAdd(MMulSmall(a, b[j]), IF r = <<>> THEN <<>> ELSE <<0>> \o r)

MMul(a, b) == IF a = <<>> THEN <<>> ELSE MMulAt(a, b, 1)

(***************************************************************************)
(* Exact rationals: sgn in {-1, 0, 1}, num and den naturals, den > 0.      *)
(* They are not kept in lowest terms, so two of them are compared with     *)
(* REq, never with =.                                                      *)
(***************************************************************************)
Zero == [sgn |-> 0, num |-> <<>>, den |-> <<1>>]

\* n / d with the common factors of Base removed
RECURSIVE MkRat(_, _, _)
MkRat(s, n, d) ==
    IF n = <<>> \/ s = 0 THEN Zero
    ELSE IF n[1] = 0 /\ d[1] = 0 THEN MkRat(s, Tail(n), Tail(d))
    ELSE [sgn |-> s, num |-> n, den |-> d]

\* n / d for integers n and d > 0
Ratio(n, d) ==
    MkRat(IF n < 0 THEN -1 ELSE 1, MFromNat(IF n < 0 THEN -n ELSE n), MFromNat(d))

FromInt(n) == Ratio(n, 1)

One == FromInt(1)

RNeg(a) == MkRat(-a.sgn, a.num, a.den)

\* the sum of s1*n1 and s2*n2 over the denominator d
SignedSum(s1, n1, s2, n2, d) ==
    IF s1 = 0 THEN MkRat(s2, n2, d)
    ELSE IF s2 = 0 THEN MkRat(s1, n1, d)
    ELSE IF s1 = s2 THEN MkRat(s1, MAdd(n1, n2), d)
    ELSE LET c == MCmp(n1, n2)
         IN  IF c = 0 THEN Zero
             ELSE IF c = 1 THEN MkRat(s1, MSub(n1, n2), d)
             ELSE MkRat(s2, MSub(n2, n1), d)

RAdd(a, b) ==
    IF a.den = b.den THEN SignedSum(a.sgn, a.num, b.sgn, b.num, a.den)
    ELSE SignedSum(a.sgn, MMul(a.num, b.den), b.sgn, MMul(b.num, a.den),
                   MMul(a.den, b.den))

RSub(a, b) == RAdd(a, RNeg(b))

RMul(a, b) == MkRat(a.sgn * b.sgn, MMul(a.num, b.num), MMul(a.den, b.den))

\* a / b for b # 0
RDiv(a, b) == MkRat(a.sgn * b.sgn, MMul(a.num, b.den), MMul(a.den, b.num))

RSign(a) == a.sgn

REq(a, b) == RSign(RSub(a, b)) = 0

RLt(a, b) == RSign(RSub(a, b)) = -1

RLe(a, b) == RSign(RSub(a, b)) <= 0

RGt(a, b) == RLt(b, a)

RECURSIVE RPow(_, _)
RPow(a, k) == IF k = 0 THEN One ELSE RMul(a, RPow(a, k - 1))

(***************************************************************************)
(* Python values of the script: an operation either returns a number or    *)
(* raises.                                                                 *)
(***************************************************************************)
Returns(v) == [exc |-> "none", val |-> v]

Raises(e) == [exc |-> e, val |-> Zero]

\* Python's max(0, x)
PyMax0(x) == IF RGt(x, Zero) THEN x ELSE Zero

(***************************************************************************)
(* Texts                                                                   *)
(***************************************************************************)
DigitChars == <<"0", "1", "2", "3", "4", "5", "6", "7", "8", "9">>

IsDigit(c) == \E i \in 1..10 : DigitChars[i] = c

DigitVal(c) == (CHOOSE i \in 1..10 : DigitChars[i] = c) - 1

\* str.replace(c, "")
Remove(s, c) == SelectSeq(s, LAMBDA x : x # c)

RECURSIVE LStrip(_)
LStrip(s) == IF s # <<>> /\ Head(s) = " " THEN LStrip(Tail(s)) ELSE s

RECURSIVE RStrip(_)
RStrip(s) ==
    IF s # <<>> /\ s[Len(s)] = " " THEN RStrip(SubSeq(s, 1, Len(s) - 1)) ELSE s

\* str.strip()
Strip(s) == RStrip(LStrip(s))

RECURSIVE MFromDigits(_, _, _)
MFromDigits(s, i, acc) ==
    IF i > Len(s) THEN acc
    ELSE MFromDigits(s, i + 1, MAdd(MMulSmall(acc, 10), MFromNat(DigitVal(s[i]))))

\* float(s) on the characters of the model: surrounding whitespace, a sign,
\* digits with at most one point and at least one digit; anything else is a
\* ValueError.
PyFloat(s) ==
    LET t      == Strip(s)
        signed == t # <<>> /\ Head(t) \in {"+", "-"}
        body   == IF signed THEN Tail(t) ELSE t
        digits == Remove(body, ".")
        points == Len(body) - Len(digits)
        dot    == IF points = 1 THEN CHOOSE i \in 1..Len(body) : body[i] = "." ELSE 0
        frac   == IF points = 1 THEN Len(body) - dot ELSE 0
    IN  IF digits = <<>> \/ points > 1 \/ \E i \in 1..Len(digits) : ~IsDigit(digits[i])
        THEN Raises("ValueError")
        ELSE Returns(MkRat(IF signed /\ Head(t) = "-" THEN -1 ELSE 1,
                           MFromDigits(digits, 1, <<>>),
                           RPow(FromInt(10), frac).num))

\* parse_dollar_string without the removal of the commas
parse_dollar_string_keeps_commas(dollar_str) ==
    LET clean_str == Strip(Remove(dollar_str, "$"))
    IN  PyFloat(clean_str)

parse_dollar_string(dollar_str) ==
    LET clean_str == Strip(Remove(Remove(dollar_str, "$"), ","))
    IN  PyFloat(clean_str)

RECURSIVE NatDigits(_)
NatDigits(n) ==
    IF n < 10 THEN <<DigitChars[n + 1]>>
    ELSE NatDigits(n \div 10) \o <<DigitChars[(n % 10) + 1]>>

RECURSIVE GroupThousands(_)
GroupThousands(ds) ==
    IF Len(ds) <= 3 THEN ds
    ELSE GroupThousands(SubSeq(ds, 1, Len(ds) - 3)) \o <<",">>
         \o SubSeq(ds, Len(ds) - 2, Len(ds))

\* f"${amount:,.0f}", for the integer amounts the model formats
format_dollar_value(amount) ==
    <<"$">> \o (IF amount < 0 THEN <<"-">> ELSE <<>>)
    \o GroupThousands(NatDigits(IF amount < 0 THEN -amount ELSE amount))

(***************************************************************************)
(* Default constants and the tier table (lines 20-37)                      *)
(***************************************************************************)
default_safe_raise == 25000000

default_capital_raised == 53000000

default_pre_money_valuation == 250000000

\* 20.0 and 3.8, in percent
default_capital_gains_tax == Ratio(20, 1)

default_medicare_surtax == Ratio(38, 10)

Billion == FromInt(1000 * 1000 * 1000)

\* The dict in its insertion order: the key, then (valuation, time horizon).
VALUATION_TIERS ==
    << [name |-> "Very Low (1B)",    valuation |-> RMul(FromInt(1), Billion),   horizon |-> 1],
       [name |-> "Low (8-10B)",      valuation |-> RMul(FromInt(9), Billion),   horizon |-> 3],
       [name |-> "Mid (36B)",        valuation |-> RMul(FromInt(36), Billion),  horizon |-> 5],
       [name |-> "High (80-90B)",    valuation |-> RMul(FromInt(85), Billion),  horizon |-> 6],
       [name |-> "Very High (150B)", valuation |-> RMul(FromInt(150), Billion), horizon |-> 7] >>

\* list(VALUATION_TIERS.keys())
TierKeys == [i \in 1..Len(VALUATION_TIERS) |-> VALUATION_TIERS[i].name]

\* VALUATION_TIERS[key]
TierAt(key) ==
    VALUATION_TIERS[CHOOSE i \in 1..Len(VALUATION_TIERS) : VALUATION_TIERS[i].name = key]

\* the items sorted by value, highest first
TierItems_descending ==
    [i \in 1..Len(VALUATION_TIERS) |-> VALUATION_TIERS[Len(VALUATION_TIERS) + 1 - i]]

\* VALUATION_TIERS.items(), the sequence the comparison loop iterates
TierItems == VALUATION_TIERS

upfront_fee_percent == Ratio(2, 100)

preferred_return_rate == Ratio(8, 100)

carry_percent == Ratio(20, 100)

(***************************************************************************)
(* State                                                                   *)
(***************************************************************************)
VARIABLES
    pc,                    \* the statement the script run is at
    exception,             \* the exception that ended the run, or "none"
    safe_raise, capital_raised, pre_money_valuation,
    capital_gains_tax, medicare_surtax,
    selected_tier, custom_valuation_str, custom_valuation,
    valuation_in_use, time_horizon_in_use,
    investment_str, investment,
    after_tax_return,      \* the headline figure
    subheader,             \* the label of the headline
    results,               \* the dict of the comparison loop, in insertion order
    tier_pos,              \* the position of the loop in TierItems
    table,                 \* the rows handed to st.dataframe / st.bar_chart
    shown,                 \* "nothing", "result" or "warning"
    calls,                 \* history: the calls of calculate_after_tax_return
    u_fn, u_args, u_rets   \* a function called on its own: name, arguments, returns

sidebarVars == <<safe_raise, capital_raised, pre_money_valuation>>

taxVars == <<capital_gains_tax, medicare_surtax>>

scenarioVars == <<selected_tier, custom_valuation_str, custom_valuation,
                  valuation_in_use, time_horizon_in_use>>

investVars == <<investment_str, investment>>

outVars == <<after_tax_return, subheader, results, tier_pos, table, shown>>

unitVars == <<u_fn, u_args, u_rets>>

vars == <<pc, exception, sidebarVars, taxVars, scenarioVars, investVars, outVars,
          calls, unitVars>>

\* a name the script has not assigned yet
Unset == [unset |-> TRUE]

(***************************************************************************)
(* Calculation functions (lines 42-67)                                     *)
(***************************************************************************)
calculate_ownership(inv, post_money_valuation) ==
    IF RSign(post_money_valuation) = 0 THEN Raises("ZeroDivisionError")
    ELSE Returns(RDiv(inv, post_money_valuation))

calculate_final_value(ownership, valuation_2028) == RMul(ownership, valuation_2028)

\* simple interest in place of compounding
calculate_preferred_return_simple(inv, time_horizon, pref_rate) ==
    RMul(inv, RAdd(One, RMul(pref_rate, FromInt(time_horizon))))

calculate_preferred_return(inv, time_horizon, pref_rate) ==
    RMul(inv, RPow(RAdd(One, pref_rate), time_horizon))

\* the carry without its floor at 0
calculate_gp_carry_unfloored(final_value, preferred_return, carry_rate) ==
    LET profit == RSub(final_value, preferred_return)
    IN  RMul(profit, carry_rate)

calculate_gp_carry(final_value, preferred_return, carry_rate) ==
    LET profit == RSub(final_value, preferred_return)
    IN  PyMax0(RMul(profit, carry_rate))

\* the tax charged on the whole value, not on the gain
calculate_taxes_on_value(investor_value, initial_investment, cap_gains_rate, medicare_rate) ==
    LET taxable_gain == investor_value
    IN  PyMax0(RMul(taxable_gain, RAdd(cap_gains_rate, medicare_rate)))

calculate_taxes(investor_value, initial_investment, cap_gains_rate, medicare_rate) ==
    LET taxable_gain == RSub(investor_value, initial_investment)
    IN  PyMax0(RMul(taxable_gain, RAdd(cap_gains_rate, medicare_rate)))

\* the post-money valuation read with the module-level safe_raise added
calculate_after_tax_return_with_safe(inv, valuation, time_horizon, pre_money, cap_raised) ==
    LET post_money_valuation == RAdd(RAdd(pre_money, cap_raised), safe_raise)
        ownership == calculate_ownership(inv, post_money_valuation)
    IN  IF ownership.exc # "none" THEN ownership
        ELSE
        LET final_value == calculate_final_value(ownership.val, valuation)
            pref_return == calculate_preferred_return(inv, time_horizon,
                                                      preferred_return_rate)
            gp_carry == calculate_gp_carry(final_value, pref_return, carry_percent)
            investor_value == RSub(RSub(final_value, pref_return), gp_carry)
            total_taxes == calculate_taxes(investor_value, inv,
                                           capital_gains_tax, medicare_surtax)
        IN  Returns(RSub(investor_value, total_taxes))

\* Reads the module-level capital_gains_tax and medicare_surtax (lines 93-94)
\* and the module-level preferred_return_rate and carry_percent.
calculate_after_tax_return(inv, valuation, time_horizon, pre_money, cap_raised) ==
    LET post_money_valuation == RAdd(pre_money, cap_raised)
        ownership == calculate_ownership(inv, post_money_valuation)
    IN  IF ownership.exc # "none" THEN ownership
        ELSE
        LET final_value == calculate_final_value(ownership.val, valuation)
            pref_return == calculate_preferred_return(inv, time_horizon,
                                                      preferred_return_rate)
            gp_carry == calculate_gp_carry(final_value, pref_return, carry_percent)
            investor_value == RSub(RSub(final_value, pref_return), gp_carry)
            total_taxes == calculate_taxes(investor_value, inv,
                                           capital_gains_tax, medicare_surtax)
        IN  Returns(RSub(investor_value, total_taxes))

\* the history entry of one call
CallRecord(site, inv, valuation, time_horizon, pre_money, cap_raised, ret) ==
    [site |-> site, investment |-> inv, valuation |-> valuation,
     time_horizon |-> time_horizon, pre_money_valuation |-> pre_money,
     capital_raised |-> cap_raised, ret |-> ret]

(***************************************************************************)
(* The inputs of a run                                                     *)
(***************************************************************************)
SafeRaiseTexts == {format_dollar_value(default_safe_raise), <<"2", "5", "M">>}

CapitalRaisedTexts ==
    {format_dollar_value(default_capital_raised), <<"0">>,
     <<"-", "5", "3", ",", "0", "0", "0", ",", "0", "0", "0">>, <<>>}

PreMoneyTexts ==
    {format_dollar_value(default_pre_money_valuation), <<"0">>,
     <<"5", "3", ",", "0", "0", "0", ",", "0", "0", "0">>,
     format_dollar_value(1000 * 1000 * 1000), <<"x">>}

\* slider positions, in percent
CapitalGainsPositions == {FromInt(0), default_capital_gains_tax}

MedicarePositions == {FromInt(0), default_medicare_surtax}

CustomValuationTexts ==
    {<<>>, <<" ">>, <<"$", "1", ",", "0", "0", "0", ",", "0", "0", "0">>,
     <<"-", "5">>, <<"1", "B">>, <<"2", ".", "5", "M">>, <<"$">>}

InvestmentTexts ==
    {<<>>, <<" ", " ">>, format_dollar_value(default_safe_raise), <<"0">>,
     <<"-", "1">>, <<"1", ",", "0", "0", "0", ".", "5">>, <<"x">>}

(***************************************************************************)
(* The script run (lines 73-159), one action per statement group.  A       *)
(* widget returns its text, position or choice at the statement that calls *)
(* it.  What is drawn is kept as values (after_tax_return, table); their   *)
(* formatting for display changes no value and is left out.                *)
(***************************************************************************)
InitRun ==
    /\ pc = "safe_raise"
    /\ exception = "none"
    /\ safe_raise = Unset /\ capital_raised = Unset /\ pre_money_valuation = Unset
    /\ capital_gains_tax = Unset /\ medicare_surtax = Unset
    /\ selected_tier = Unset /\ custom_valuation_str = Unset /\ custom_valuation = Unset
    /\ valuation_in_use = Unset /\ time_horizon_in_use = Unset
    /\ investment_str = Unset /\ investment = Unset
    /\ after_tax_return = Unset /\ subheader = Unset /\ results = Unset
    /\ tier_pos = 0 /\ table = Unset /\ shown = "nothing"
    /\ calls = <<>>

Init ==
    /\ InitRun
    /\ u_fn = "none" /\ u_args = <<>> /\ u_rets = <<>>

\* an uncaught exception ends the run
Abort(e) == pc' = "error" /\ exception' = e

\* lines 78-79
SafeRaiseInput ==
    /\ pc = "safe_raise"
    /\ \E safe_raise_str \in SafeRaiseTexts :
          LET r == parse_dollar_string(safe_raise_str)
          IN  IF r.exc # "none"
              THEN Abort(r.exc) /\ UNCHANGED safe_raise
              ELSE safe_raise' = r.val /\ pc' = "capital_raised" /\ UNCHANGED exception
    /\ UNCHANGED <<capital_raised, pre_money_valuation, taxVars, scenarioVars,
                   investVars, outVars, calls, unitVars>>

\* lines 81-82
CapitalRaisedInput ==
    /\ pc = "capital_raised"
    /\ \E capital_raised_str \in CapitalRaisedTexts :
          LET r == parse_dollar_string(capital_raised_str)
          IN  IF r.exc # "none"
              THEN Abort(r.exc) /\ UNCHANGED capital_raised
              ELSE capital_raised' = r.val /\ pc' = "pre_money" /\ UNCHANGED exception
    /\ UNCHANGED <<safe_raise, pre_money_valuation, taxVars, scenarioVars,
                   investVars, outVars, calls, unitVars>>

\* lines 84-85
PreMoneyInput ==
    /\ pc = "pre_money"
    /\ \E pre_money_str \in PreMoneyTexts :
          LET r == parse_dollar_string(pre_money_str)
          IN  IF r.exc # "none"
              THEN Abort(r.exc) /\ UNCHANGED pre_money_valuation
              ELSE /\ pre_money_valuation' = r.val
                   /\ pc' = "capital_gains" /\ UNCHANGED exception
    /\ UNCHANGED <<safe_raise, capital_raised, taxVars, scenarioVars,
                   investVars, outVars, calls, unitVars>>

\* line 93
CapitalGainsSlider ==
    /\ pc = "capital_gains"
    /\ \E position \in CapitalGainsPositions :
          capital_gains_tax' = RDiv(position, FromInt(100))
    /\ pc' = "medicare"
    /\ UNCHANGED <<exception, sidebarVars, medicare_surtax, scenarioVars,
                   investVars, outVars, calls, unitVars>>

\* line 94
MedicareSlider ==
    /\ pc = "medicare"
    /\ \E position \in MedicarePositions :
          medicare_surtax' = RDiv(position, FromInt(100))
    /\ pc' = "select_tier"
    /\ UNCHANGED <<exception, sidebarVars, capital_gains_tax, scenarioVars,
                   investVars, outVars, calls, unitVars>>

\* lines 97-98
SelectTier ==
    /\ pc = "select_tier"
    /\ \E i \in 1..Len(TierKeys) : selected_tier' = TierKeys[i]
    /\ pc' = "custom_valuation"
    /\ UNCHANGED <<exception, sidebarVars, taxVars, custom_valuation_str,
                   custom_valuation, valuation_in_use, time_horizon_in_use,
                   investVars, outVars, calls, unitVars>>

\* the test custom_valuation >= 0 in place of > 0
SelectScenario_nonnegative(tier_key, custom) ==
    LET tier_valuation    == TierAt(tier_key).valuation
        tier_time_horizon == TierAt(tier_key).horizon
    IN  IF ~RLt(custom, Zero) THEN <<custom, tier_time_horizon>>
        ELSE <<tier_valuation, tier_time_horizon>>

\* lines 107-114: (valuation_in_use, time_horizon_in_use)
SelectScenario(tier_key, custom) ==
    LET tier_valuation    == TierAt(tier_key).valuation
        tier_time_horizon == TierAt(tier_key).horizon
    IN  IF RGt(custom, Zero) THEN <<custom, tier_time_horizon>>
        ELSE <<tier_valuation, tier_time_horizon>>

\* lines 101-114
CustomValuationInput ==
    /\ pc = "custom_valuation"
    /\ \E text \in CustomValuationTexts :
          LET r == IF Strip(text) # <<>> THEN parse_dollar_string(text)
                   ELSE Returns(Zero)
          IN  /\ custom_valuation_str' = text
              /\ IF r.exc # "none"
                 THEN /\ Abort(r.exc)
                      /\ custom_valuation' = Zero
                      /\ UNCHANGED <<valuation_in_use, time_horizon_in_use>>
                 ELSE /\ custom_valuation' = r.val
                      /\ valuation_in_use' = SelectScenario(selected_tier, r.val)[1]
                      /\ time_horizon_in_use' = SelectScenario(selected_tier, r.val)[2]
                      /\ pc' = "investment" /\ UNCHANGED exception
    /\ UNCHANGED <<sidebarVars, taxVars, selected_tier, investVars, outVars,
                   calls, unitVars>>

\* lines 117-120
InvestmentInput ==
    /\ pc = "investment"
    /\ \E text \in InvestmentTexts :
          LET r == IF Strip(text) # <<>> THEN parse_dollar_string(text)
                   ELSE Returns(Zero)
          IN  /\ investment_str' = text
              /\ IF r.exc # "none"
                 THEN Abort(r.exc) /\ investment' = Zero
                 ELSE investment' = r.val /\ pc' = "show" /\ UNCHANGED exception
    /\ UNCHANGED <<sidebarVars, taxVars, scenarioVars, outVars, calls, unitVars>>

\* the test investment != 0 in place of > 0
HasInvestment_nonzero == RSign(investment) # 0

\* line 123: investment > 0
HasInvestment == RGt(investment, Zero)

\* lines 123-140: the headline, then results = {}
ShowResult ==
    /\ pc = "show"
    /\ HasInvestment
    /\ LET r == calculate_after_tax_return(investment, valuation_in_use,
                    time_horizon_in_use, pre_money_valuation, capital_raised)
       IN  /\ calls' = Append(calls,
                  CallRecord("headline", investment, valuation_in_use,
                      time_horizon_in_use, pre_money_valuation, capital_raised, r))
           /\ IF r.exc # "none"
              THEN /\ Abort(r.exc)
                   /\ UNCHANGED outVars
              ELSE /\ after_tax_return' = r.val
                   /\ subheader' = IF RLe(custom_valuation, Zero) THEN selected_tier
                                   ELSE "Custom Valuation"
                   /\ shown' = "result"
                   /\ results' = <<>>
                   /\ tier_pos' = 1
                   /\ pc' = "tiers"
                   /\ UNCHANGED <<exception, table>>
    /\ UNCHANGED <<sidebarVars, taxVars, scenarioVars, investVars, unitVars>>

\* results[key] = value on a dict kept in insertion order
DictSet(d, key, value) ==
    IF \E i \in 1..Len(d) : d[i].tier = key
    THEN [i \in 1..Len(d) |-> IF d[i].tier = key THEN [tier |-> key, ret |-> value]
                              ELSE d[i]]
    ELSE Append(d, [tier |-> key, ret |-> value])

\* lines 141-147: one iteration of the comparison loop
TierLoopStep ==
    /\ pc = "tiers"
    /\ tier_pos <= Len(TierItems)
    /\ LET item == TierItems[tier_pos]
           r == calculate_after_tax_return(investment, item.valuation, item.horizon,
                                           pre_money_valuation, capital_raised)
       IN  /\ calls' = Append(calls,
                  CallRecord("table", investment, item.valuation, item.horizon,
                             pre_money_valuation, capital_raised, r))
           /\ IF r.exc # "none"
              THEN Abort(r.exc) /\ UNCHANGED <<results, tier_pos>>
              ELSE /\ results' = DictSet(results, item.name, r.val)
                   /\ tier_pos' = tier_pos + 1
                   /\ UNCHANGED <<pc, exception>>
    /\ UNCHANGED <<sidebarVars, taxVars, scenarioVars, investVars,
                   after_tax_return, subheader, table, shown, unitVars>>

\* lines 150-156: the loop is over, the table and the chart are drawn
RenderTable ==
    /\ pc = "tiers"
    /\ tier_pos > Len(TierItems)
    /\ table' = results
    /\ pc' = "done"
    /\ UNCHANGED <<exception, sidebarVars, taxVars, scenarioVars, investVars,
                   after_tax_return, subheader, results, tier_pos, shown, calls,
                   unitVars>>

\* lines 158-159
ShowWarning ==
    /\ pc = "show"
    /\ ~HasInvestment
    /\ shown' = "warning"
    /\ pc' = "done"
    /\ UNCHANGED <<exception, sidebarVars, taxVars, scenarioVars, investVars,
                   after_tax_return, subheader, results, tier_pos, table, calls,
                   unitVars>>

Next ==
    \/ SafeRaiseInput \/ CapitalRaisedInput \/ PreMoneyInput
    \/ CapitalGainsSlider \/ MedicareSlider
    \/ SelectTier \/ CustomValuationInput \/ InvestmentInput
    \/ ShowResult \/ TierLoopStep \/ RenderTable \/ ShowWarning

Spec == Init /\ [][Next]_vars

(***************************************************************************)
(* A function called on its own                                            *)
(*                                                                         *)
(* The specifications below apply one function of the script to inputs     *)
(* drawn from bounded sets; the script itself does not run (pc = "unit").  *)
(***************************************************************************)
MaxTextLen == 3

MaxNum == 3

MaxDen == 2

RateSteps == 4

MaxCalls == 2

\* the script's names, none of them assigned
NoRun ==
    /\ pc = "unit"
    /\ exception = "none"
    /\ capital_raised = Unset /\ pre_money_valuation = Unset
    /\ selected_tier = Unset /\ custom_valuation_str = Unset /\ custom_valuation = Unset
    /\ valuation_in_use = Unset /\ time_horizon_in_use = Unset
    /\ investment_str = Unset /\ investment = Unset
    /\ after_tax_return = Unset /\ subheader = Unset /\ results = Unset
    /\ tier_pos = 0 /\ table = Unset /\ shown = "nothing"
    /\ calls = <<>>

runVars == <<pc, exception, capital_raised, pre_money_valuation, scenarioVars,
             investVars, outVars, calls>>

(*** parse_dollar_string on every short text and on the documented ones ***)
ParseChars == {"$", ",", " ", "-", ".", "1", "5", "B", "M"}

ExampleTexts ==
    {<<"$", "1", ",", "0", "0", "0", ",", "0", "0", "0">>,
     <<"2", ".", "5", "M">>, <<"2", ".", "5", "m">>, <<"1", "b">>,
     <<" ", "$", "2", "5", ",", "0", "0", "0", ".", "7", "5", " ">>,
     format_dollar_value(default_pre_money_valuation)}

ParseTexts ==
    ExampleTexts \cup UNION {[1..n -> ParseChars] : n \in 0..MaxTextLen}

InitParse ==
    /\ NoRun
    /\ safe_raise = Unset /\ capital_gains_tax = Unset /\ medicare_surtax = Unset
    /\ u_fn = "parse_dollar_string"
    /\ \E text \in ParseTexts : u_args = <<text>>
    /\ u_rets = <<>>

CallParse ==
    /\ u_fn = "parse_dollar_string"
    /\ u_rets = <<>>
    /\ u_rets' = <<[ret |-> parse_dollar_string(u_args[1])]>>
    /\ UNCHANGED <<runVars, safe_raise, taxVars, u_fn, u_args>>

NextParse == CallParse

SpecParse == InitParse /\ [][NextParse]_vars

(*** calculate_gp_carry and calculate_taxes on small amounts and rates ***)
Amounts == {Ratio(n, d) : n \in (-MaxNum)..MaxNum, d \in 1..MaxDen}

\* rates in [0, 1]
Rates == {Ratio(k, RateSteps) : k \in 0..RateSteps}

InitArith ==
    /\ NoRun
    /\ safe_raise = Unset /\ capital_gains_tax = Unset /\ medicare_surtax = Unset
    /\ \/ /\ u_fn = "calculate_gp_carry"
          /\ u_args \in Amounts \X Amounts \X Rates
       \/ /\ u_fn = "calculate_taxes"
          /\ u_args \in Amounts \X Amounts \X Rates \X Rates
    /\ u_rets = <<>>

CallGpCarry ==
    /\ u_fn = "calculate_gp_carry"
    /\ u_rets = <<>>
    /\ u_rets' = <<[ret |-> calculate_gp_carry(u_args[1], u_args[2], u_args[3])]>>
    /\ UNCHANGED <<runVars, safe_raise, taxVars, u_fn, u_args>>

CallTaxes ==
    /\ u_fn = "calculate_taxes"
    /\ u_rets = <<>>
    /\ u_rets' = <<[ret |-> calculate_taxes(u_args[1], u_args[2], u_args[3], u_args[4])]>>
    /\ UNCHANGED <<runVars, safe_raise, taxVars, u_fn, u_args>>

NextArith == CallGpCarry \/ CallTaxes

SpecArith == InitArith /\ [][NextArith]_vars

(*** calculate_after_tax_return called again and again with the same     ***)
(*** arguments while the widgets of the sidebar are moved between calls  ***)
ParsedOf(texts) == {parse_dollar_string(t).val : t \in texts}

PurityArgs ==
    ParsedOf({format_dollar_value(default_safe_raise), <<"1", ",", "0", "0", "0", ".", "5">>})
    \X {TierAt("Mid (36B)").valuation, FromInt(1000 * 1000)}
    \X {1, 5}
    \X ParsedOf({format_dollar_value(default_pre_money_valuation), <<"0">>})
    \X ParsedOf({format_dollar_value(default_capital_raised), <<"0">>})

SafeRaiseValues == ParsedOf({format_dollar_value(default_safe_raise), <<"0">>})

InitPurity ==
    /\ NoRun
    /\ safe_raise \in SafeRaiseValues
    /\ \E position \in CapitalGainsPositions :
          capital_gains_tax = RDiv(position, FromInt(100))
    /\ \E position \in MedicarePositions :
          medicare_surtax = RDiv(position, FromInt(100))
    /\ u_fn = "calculate_after_tax_return"
    /\ u_args \in PurityArgs
    /\ u_rets = <<>>

CallAfterTaxReturn ==
    /\ u_fn = "calculate_after_tax_return"
    /\ Len(u_rets) < MaxCalls
    /\ u_rets' = Append(u_rets,
          [ret |-> calculate_after_tax_return(u_args[1], u_args[2], u_args[3],
                                              u_args[4], u_args[5]),
           capital_gains_tax |-> capital_gains_tax,
           medicare_surtax |-> medicare_surtax,
           safe_raise |-> safe_raise])
    /\ UNCHANGED <<runVars, safe_raise, taxVars, u_fn, u_args>>

\* line 79 in a later run of the script
EditSafeRaise ==
    /\ u_fn = "calculate_after_tax_return"
    /\ safe_raise' \in SafeRaiseValues
    /\ UNCHANGED <<runVars, taxVars, unitVars>>

\* line 93 in a later run of the script
MoveCapitalGainsSlider ==
    /\ u_fn = "calculate_after_tax_return"
    /\ \E position \in CapitalGainsPositions :
          capital_gains_tax' = RDiv(position, FromInt(100))
    /\ UNCHANGED <<runVars, safe_raise, medicare_surtax, unitVars>>

\* line 94 in a later run of the script
MoveMedicareSlider ==
    /\ u_fn = "calculate_after_tax_return"
    /\ \E position \in MedicarePositions :
          medicare_surtax' = RDiv(position, FromInt(100))
    /\ UNCHANGED <<runVars, safe_raise, capital_gains_tax, unitVars>>

NextPurity ==
    \/ CallAfterTaxReturn \/ EditSafeRaise
    \/ MoveCapitalGainsSlider \/ MoveMedicareSlider

SpecPurity == InitPurity /\ [][NextPurity]_vars

(***************************************************************************)
(* Properties                                                              *)
(***************************************************************************)
LastCall == calls[Len(calls)]

PostMoneyOf(c) == RAdd(c.pre_money_valuation, c.capital_raised)

ResultEq(a, b) == a.exc = b.exc /\ REq(a.val, b.val)

\* C1: for investment > 0 and pre_money_valuation + capital_raised > 0 a call of
\* calculate_after_tax_return returns investor_value_pre_tax - taxes, with
\* ownership = investment / post-money, final_value = ownership * valuation,
\* preferred_return = investment * (1 + preferred_return_rate)^time_horizon,
\* gp_carry = max(0, (final_value - preferred_return) * carry_percent),
\* investor_value_pre_tax = final_value - preferred_return - gp_carry and
\* taxes = max(0, (investor_value_pre_tax - investment) * (capital_gains_tax +
\* medicare_surtax)); when no carry and no taxes are charged the return is
\* final_value - preferred_return.  (Stated of the latest call: the history
\* only grows, so every call is the latest one in some state.)
C1_AfterTaxReturnFormula ==
    calls # <<>> =>
        LET c    == LastCall
            post == PostMoneyOf(c)
        IN  (RSign(c.investment) = 1 /\ RSign(post) = 1) =>
            LET ownership        == RDiv(c.investment, post)
                final_value      == RMul(ownership, c.valuation)
                preferred_return ==
                    RMul(c.investment,
                         RPow(RAdd(One, preferred_return_rate), c.time_horizon))
                excess   == RMul(RSub(final_value, preferred_return), carry_percent)
                gp_carry == IF RSign(excess) = 1 THEN excess ELSE Zero
                pre_tax  == RSub(RSub(final_value, preferred_return), gp_carry)
                gain_tax == RMul(RSub(pre_tax, c.investment),
                                 RAdd(capital_gains_tax, medicare_surtax))
                taxes    == IF RSign(gain_tax) = 1 THEN gain_tax ELSE Zero
            IN  /\ c.ret.exc = "none"
                /\ REq(c.ret.val, RSub(pre_tax, taxes))
                /\ (RSign(gp_carry) = 0 /\ RSign(taxes) = 0) =>
                       REq(c.ret.val, RSub(final_value, preferred_return))

\* a call on valid deal terms that returned a taxed gain
C1_Witness ==
    /\ calls # <<>>
    /\ RSign(PostMoneyOf(LastCall)) = 1
    /\ LastCall.ret.exc = "none"
    /\ LastCall.time_horizon > 1
    /\ RGt(LastCall.ret.val, LastCall.investment)
    /\ RSign(RAdd(capital_gains_tax, medicare_surtax)) = 1

\* C2: the carry calculate_gp_carry returns is never negative, and it is zero
\* whenever final_value <= preferred_return, for every carry rate in [0, 1].
C2_GpCarryNonNegative ==
    (u_fn = "calculate_gp_carry" /\ u_rets # <<>>) =>
        /\ RSign(u_rets[1].ret) >= 0
        /\ RLe(u_args[1], u_args[2]) => RSign(u_rets[1].ret) = 0

\* the carry of a value below the preferred return, at a positive rate
C2_Witness ==
    /\ u_fn = "calculate_gp_carry" /\ u_rets # <<>>
    /\ RLt(u_args[1], u_args[2])
    /\ RSign(u_args[3]) = 1
    /\ RSign(u_rets[1].ret) = 0

\* C3: the taxes calculate_taxes returns are never negative, and they are zero
\* whenever investor_value <= initial_investment, for tax rates in [0, 1].
C3_TaxesNonNegative ==
    (u_fn = "calculate_taxes" /\ u_rets # <<>>) =>
        /\ RSign(u_rets[1].ret) >= 0
        /\ RLe(u_args[1], u_args[2]) => RSign(u_rets[1].ret) = 0

\* the taxes of a positive value below the investment, at positive rates
C3_Witness ==
    /\ u_fn = "calculate_taxes" /\ u_rets # <<>>
    /\ RSign(u_args[1]) = 1
    /\ RLt(u_args[1], u_args[2])
    /\ RSign(u_args[3]) = 1 /\ RSign(u_args[4]) = 1
    /\ RSign(u_rets[1].ret) = 0

\* C4: a call with pre_money_valuation + capital_raised <= 0 is blocked: it
\* does not divide by that post-money valuation and returns no value, it raises.
\* (The claim names the exception, InvalidDealTermsError; the formula accepts
\* any exception, so that what refutes it is a value returned.)
C4_PostMoneyGuarded ==
    (calls # <<>> /\ RSign(PostMoneyOf(LastCall)) <= 0) =>
        LastCall.ret.exc # "none"

\* C5: a text that does not parse never ends the run: the ValueError of the
\* parser does not leave the statement that called it.
C5_ParseFailureStaysLocal == ~(pc = "error" /\ exception = "ValueError")

\* the investment text is blank, or parses to a value <= 0
\* (investment is assigned by the statements that assign investment_str)
NoInvestmentEntered ==
    /\ investment # Unset
    /\ \/ Strip(investment_str) = <<>>
       \/ /\ parse_dollar_string(investment_str).exc = "none"
          /\ RSign(parse_dollar_string(investment_str).val) <= 0

\* C6: once the investment text is read (line 117) and is blank or parses to a value <= 0,
\* the run raises nothing, never calls calculate_after_tax_return, shows no
\* result, can only go on to the warning and ends there; and every call of
\* calculate_after_tax_return has investment > 0.
C6_NoResultWithoutInvestment ==
    /\ NoInvestmentEntered =>
          /\ pc \in {"show", "done"}
          /\ exception = "none"
          /\ calls = <<>>
          /\ after_tax_return = Unset /\ shown # "result" /\ tier_pos = 0
          /\ pc = "show" => (shown = "nothing" /\ ENABLED ShowWarning /\ ~ENABLED ShowResult)
          /\ pc = "done" => shown = "warning"
    /\ \A i \in 1..Len(calls) : RSign(calls[i].investment) = 1

\* a run that ended at the warning on a negative investment
C6_Witness ==
    /\ pc = "done" /\ shown = "warning"
    /\ investment # Unset /\ Strip(investment_str) # <<>>
    /\ RSign(investment) = -1

Cleaned(text) == Strip(Remove(Remove(text, "$"), ","))

\* the number a sequence of digits writes
RECURSIVE DecimalOf(_)
DecimalOf(ds) ==
    IF ds = <<>> THEN Zero
    ELSE RAdd(RMul(DecimalOf(SubSeq(ds, 1, Len(ds) - 1)), FromInt(10)),
              FromInt(DigitVal(ds[Len(ds)])))

\* the valuation the suffix rule gives a text
SuffixValuation(text) ==
    LET s      == Cleaned(text)
        last   == IF s = <<>> THEN "" ELSE s[Len(s)]
        prefix == PyFloat(SubSeq(s, 1, Len(s) - 1))
        scaled(r, k) == IF r.exc = "none" THEN Returns(RMul(r.val, k)) ELSE r
    IN  IF last \in {"B", "b"} THEN scaled(prefix, Billion)
        ELSE IF last \in {"M", "m"} THEN scaled(prefix, FromInt(1000 * 1000))
        ELSE PyFloat(s)

TierOrder ==
    <<"Very Low (1B)", "Low (8-10B)", "Mid (36B)", "High (80-90B)", "Very High (150B)">>

TableCalls == SelectSeq(calls, LAMBDA c : c.site = "table")

\* C9: while the comparison table is built the calculator has been called once
\* per tier done so far, in the order Very Low, Low, Mid, High, Very High, each
\* call with the tier's valuation and time horizon and the run's investment and
\* deal terms, and the dict holds those tiers in that order; the table drawn
\* holds exactly one row per tier, in that order, with the calculator's result.
C9_OneRowPerTierInOrder ==
    pc \in {"tiers", "done"} /\ shown = "result" =>
        /\ Len(results) = Len(TableCalls)
        /\ Len(results) <= Len(TierOrder)
        /\ \A i \in 1..Len(results) :
              /\ results[i].tier = TierOrder[i]
              /\ TableCalls[i].valuation = TierAt(TierOrder[i]).valuation
              /\ TableCalls[i].time_horizon = TierAt(TierOrder[i]).horizon
              /\ TableCalls[i].investment = investment
              /\ TableCalls[i].pre_money_valuation = pre_money_valuation
              /\ TableCalls[i].capital_raised = capital_raised
              /\ TableCalls[i].ret = Returns(results[i].ret)
        /\ Len(calls) = Len(TableCalls) + 1
        /\ pc = "done" =>
              /\ Len(TableCalls) = Len(TierOrder)
              /\ Len(table) = Len(TierOrder)
              /\ \A i \in 1..Len(TierOrder) :
                    /\ table[i].tier = TierOrder[i]
                    /\ Returns(table[i].ret) =
                          calculate_after_tax_return(investment,
                              TierAt(TierOrder[i]).valuation,
                              TierAt(TierOrder[i]).horizon,
                              pre_money_valuation, capital_raised)

\* a table drawn whose rows differ
C9_Witness ==
    /\ pc = "done" /\ shown = "result"
    /\ Len(table) = 5
    /\ RLt(table[1].ret, table[5].ret)

\* no custom value is supplied: the text is blank, or parses to a value <= 0
NoCustomValue ==
    Strip(custom_valuation_str) = <<>> \/ RSign(custom_valuation) <= 0

\* the custom valuations the texts of the model can give
CustomValues ==
    {parse_dollar_string(t).val :
        t \in {x \in CustomValuationTexts : parse_dollar_string(x).exc = "none"}}

\* C10: a custom scenario may override either or both fields: some input gives
\* a valuation in use that is not the selected tier's, and some input gives a
\* time horizon in use that is not the selected tier's; without a custom value
\* both are the selected tier's.
C10_EitherOrBothOverridden ==
    /\ \E i \in 1..Len(TierKeys), v \in CustomValues :
          ~REq(SelectScenario(TierKeys[i], v)[1], TierAt(TierKeys[i]).valuation)
    /\ \E i \in 1..Len(TierKeys), v \in CustomValues :
          SelectScenario(TierKeys[i], v)[2] # TierAt(TierKeys[i]).horizon
    /\ valuation_in_use # Unset /\ NoCustomValue =>
          /\ valuation_in_use = TierAt(selected_tier).valuation
          /\ time_horizon_in_use = TierAt(selected_tier).horizon

\* C10 as amended: a custom scenario overrides the valuation only: a custom
\* value > 0 is the valuation in use, the time horizon in use is always the
\* selected tier's, and without a custom value both are the selected tier's.
C10_OnlyValuationOverridden ==
    valuation_in_use # Unset =>
        /\ time_horizon_in_use = TierAt(selected_tier).horizon
        /\ NoCustomValue => valuation_in_use = TierAt(selected_tier).valuation
        /\ ~NoCustomValue => valuation_in_use = custom_valuation

\* a custom valuation in use that is not the selected tier's
C10_Witness ==
    /\ valuation_in_use # Unset
    /\ ~NoCustomValue
    /\ ~REq(valuation_in_use, TierAt(selected_tier).valuation)

====
